---- MODULE Spec2Model ----
(***************************************************************************)
(* Rebate CSV Formatter (app/main.py): validate_columns, process_dataframe *)
(* and the /api/process handler process_files.                             *)
(*                                                                         *)
(* A DataFrame is [columns |-> sequence of column names, rows |-> sequence *)
(* of functions from column name to cell].  Cells are strings, as read by  *)
(* read_csv(dtype=str, keep_default_na=False).                             *)
(***************************************************************************)
EXTENDS Integers, Sequences, FiniteSets, TLC

VARIABLES
    consistent_format, \* to_datetime of the installed pandas infers one format per column
    files,             \* the uploads of the request
    pos,               \* index of the upload the for loop is at
    pc,                \* position in the handler / harness
    safe_name,         \* sanitize_filename(upload.filename or "input.csv")
    unique_prefix,     \* uuid.uuid4().hex[:8] of the upload at hand
    table,             \* the table as read (the caller's input T)
    df,                \* the working DataFrame, mutated in place by process_dataframe
    missing_columns,   \* validate_columns(df)
    final_df,          \* first component of process_dataframe's result
    metrics,           \* second component of process_dataframe's result
    results,           \* the handler's results list
    response,          \* what the caller receives
    upload_dir,        \* names stored under UPLOAD_DIR
    output_dir,        \* processed files stored under OUTPUT_DIR
    validated,         \* upload indices validate_columns was called for
    restructured       \* upload indices process_dataframe was called for

\* the state of the request handler
handler_vars == <<files, pos, safe_name, unique_prefix, results, response,
                  upload_dir, output_dir, validated, restructured>>

vars == <<consistent_format, pc, table, df, missing_columns, final_df, metrics,
          handler_vars>>

----------------------------------------------------------------------------
(* Bounds of the model *)

MaxRows == 3
MaxDateRows == 2
MaxFiles == 3

----------------------------------------------------------------------------
(* Column contract *)

REQUIRED_COLUMNS ==
    << "Rebate Name", "Level", "Lumpsum - Fee Type", "Lumpsum - Amount",
       "Lumpsum - Branch", "Lumpsum - Lumpsum Date", "Lumpsum - Pay Date" >>

DATE_COLUMNS == << "Lumpsum - Lumpsum Date", "Lumpsum - Pay Date" >>

LUMPSUM_COLUMNS ==
    << "Lumpsum - Fee Type", "Lumpsum - Amount", "Lumpsum - Branch",
       "Lumpsum - Lumpsum Date", "Lumpsum - Pay Date" >>

rebate_column == "Rebate Name"
level_column == "Level"

Range(s) == { s[i] : i \in DOMAIN s }

\* A faulty variant of validate_columns: it stops at the first absent column.
validate_columns_first_only(d) ==
    LET miss == SelectSeq(REQUIRED_COLUMNS, LAMBDA col : col \notin Range(d.columns))
    IN  IF miss = << >> THEN << >> ELSE << miss[1] >>

\* [col for col in REQUIRED_COLUMNS if col not in df.columns]
validate_columns(d) ==
    SelectSeq(REQUIRED_COLUMNS, LAMBDA col : col \notin Range(d.columns))

----------------------------------------------------------------------------
(* Missing values.  NaN / NaT / None never occur in a table as read; they  *)
(* arise inside process_dataframe and are removed by fillna.               *)

NaN == "<NaN>"

fillna(v, repl) == IF v = NaN THEN repl ELSE v

----------------------------------------------------------------------------
(* pd.to_datetime(series, errors="coerce") and .dt.strftime("%m/%d/%Y")    *)

NaT == << >>

\* The text of a cell split into its numeric fields: what the parser reads.
\* The cases are the date texts the input tables hold and their normal forms.
DateLex(s) ==
    CASE s = "01/02/2024" -> [shape |-> "slash", f |-> <<1, 2, 2024>>, off |-> 0]
      [] s = "12/31/2023" -> [shape |-> "slash", f |-> <<12, 31, 2023>>, off |-> 0]
      [] s = "1/2/2024"   -> [shape |-> "slash", f |-> <<1, 2, 2024>>, off |-> 0]
      [] s = "13/01/2024" -> [shape |-> "slash", f |-> <<13, 1, 2024>>, off |-> 0]
      [] s = "01/13/2024" -> [shape |-> "slash", f |-> <<1, 13, 2024>>, off |-> 0]
      [] s = "02/01/2024" -> [shape |-> "slash", f |-> <<2, 1, 2024>>, off |-> 0]
      [] s = "2024-01-02" -> [shape |-> "dash",  f |-> <<2024, 1, 2>>, off |-> 0]
      [] s = "2024-01-02T00:00:00+01:00"
                          -> [shape |-> "dashtz", f |-> <<2024, 1, 2>>, off |-> 1]
      [] s = "2024-01-02T00:00:00+02:00"
                          -> [shape |-> "dashtz", f |-> <<2024, 1, 2>>, off |-> 2]
      [] s = ""           -> [shape |-> "empty", f |-> <<0, 0, 0>>, off |-> 0]
      [] OTHER            -> [shape |-> "text",  f |-> <<0, 0, 0>>, off |-> 0]

IsLeap(y) == (y % 4 = 0 /\ y % 100 # 0) \/ y % 400 = 0

DaysIn(y, m) ==
    IF m = 2 THEN (IF IsLeap(y) THEN 29 ELSE 28)
    ELSE IF m \in {4, 6, 9, 11} THEN 30 ELSE 31

ValidDate(y, m, d) == m \in 1..12 /\ d \in 1..DaysIn(y, m)

MkDate(y, m, d) == IF ValidDate(y, m, d) THEN <<y, m, d>> ELSE NaT

\* Parsing one string against one format; NaT when it does not match.
ParseWith(fmt, s) ==
    LET x == DateLex(s) IN
    CASE fmt = "%m/%d/%Y" /\ x.shape = "slash" -> MkDate(x.f[3], x.f[1], x.f[2])
      [] fmt = "%d/%m/%Y" /\ x.shape = "slash" -> MkDate(x.f[3], x.f[2], x.f[1])
      [] fmt = "%Y-%m-%d" /\ x.shape = "dash"  -> MkDate(x.f[1], x.f[2], x.f[3])
      [] fmt = "%Y-%m-%dT%H:%M:%S%z" /\ x.shape = "dashtz"
                                               -> MkDate(x.f[1], x.f[2], x.f[3])
      [] OTHER -> NaT

\* The format one string suggests (None for text no format fits).
GuessFormat(s) ==
    LET x == DateLex(s) IN
    CASE x.shape = "slash" /\ ParseWith("%m/%d/%Y", s) # NaT -> "%m/%d/%Y"
      [] x.shape = "slash" /\ ParseWith("%m/%d/%Y", s) = NaT
                           /\ ParseWith("%d/%m/%Y", s) # NaT -> "%d/%m/%Y"
      [] x.shape = "dash"  /\ ParseWith("%Y-%m-%d", s) # NaT -> "%Y-%m-%d"
      [] x.shape = "dashtz" -> "%Y-%m-%dT%H:%M:%S%z"
      [] OTHER -> "None"

\* Parsing one string on its own: whatever format it suggests.
ParseAny(s) == ParseWith(GuessFormat(s), s)

IsNullText(s) == s = "" \/ s = NaN

FirstNonNull(col) ==
    LET idx == { i \in DOMAIN col : ~IsNullText(col[i]) }
    IN  IF idx = {} THEN NaN
        ELSE col[CHOOSE i \in idx : \A j \in idx : i <= j]

\* to_datetime over one column.  Either every element is parsed on its own,
\* or the format of the first non-null element is applied to all of them
\* (elements that do not match it are coerced to NaT).
to_datetime(col, consistent) ==
    LET first == FirstNonNull(col)
        fmt   == IF first = NaN THEN "None" ELSE GuessFormat(first)
    IN  IF consistent /\ fmt # "None"
        THEN [ i \in DOMAIN col |-> ParseWith(fmt, col[i]) ]
        ELSE [ i \in DOMAIN col |-> ParseAny(col[i]) ]

\* Two different UTC offsets in one column leave it with dtype object, and
\* the .dt accessor raises.
DtRaises(col) ==
    Cardinality({ DateLex(col[i]).off : i \in { j \in DOMAIN col :
                     DateLex(col[j]).shape = "dashtz" } }) > 1

Pad2(n) == IF n < 10 THEN "0" \o ToString(n) ELSE ToString(n)

\* .dt.strftime("%m/%d/%Y"): NaT stays missing.
strftime(d) ==
    IF d = NaT THEN NaN
    ELSE Pad2(d[2]) \o "/" \o Pad2(d[3]) \o "/" \o ToString(d[1])

\* parsed.dt.strftime("%m/%d/%Y").fillna("") for one column
NormalizeColumn(col, consistent) ==
    LET parsed == to_datetime(col, consistent)
    IN  [ i \in DOMAIN col |-> fillna(strftime(parsed[i]), "") ]

----------------------------------------------------------------------------
(* Ordering of the Rebate Name strings (Python str comparison, by code     *)
(* point), over the key strings the model draws from.                      *)

KeyValues == << "", "A", "B", "C" >>

StrRank(s) ==
    IF s \in Range(KeyValues)
    THEN CHOOSE i \in DOMAIN KeyValues : KeyValues[i] = s
    ELSE Len(KeyValues) + 1      \* NaN sorts last (na_position="last")

StrLess(a, b) == StrRank(a) < StrRank(b)

RECURSIVE SortKeys(_)
SortKeys(S) ==
    IF S = {} THEN << >>
    ELSE LET m == CHOOSE x \in S : \A y \in S : ~StrLess(y, x)
         IN  << m >> \o SortKeys(S \ {m})

----------------------------------------------------------------------------
(* DataFrame operations used by process_dataframe                          *)

RowCount(d) == Len(d.rows)

Frame(cols, rows) == [ columns |-> cols, rows |-> rows ]

\* df[col] = values  (an existing column keeps its place, a new one is appended)
SetColumn(d, col, values) ==
    Frame(IF col \in Range(d.columns) THEN d.columns ELSE Append(d.columns, col),
          [ i \in DOMAIN d.rows |->
                      [ c \in Range(d.columns) \cup {col} |->
                          IF c = col THEN values[i] ELSE d.rows[i][c] ] ])

SetColumnConst(d, col, v) == SetColumn(d, col, [ i \in DOMAIN d.rows |-> v ])

Column(d, col) == [ i \in DOMAIN d.rows |-> d.rows[i][col] ]

\* first non-missing value of a sequence of cells (GroupBy.first)
RECURSIVE FirstValid(_)
FirstValid(cells) ==
    IF cells = << >> THEN NaN
    ELSE IF Head(cells) # NaN THEN Head(cells)
    ELSE FirstValid(Tail(cells))

GroupRows(d, k) == SelectSeq(d.rows, LAMBDA r : r[rebate_column] = k)

\* A faulty variant of groupby_first: the group's last row as the template.
groupby_last(d) ==
    LET keys == SortKeys({ d.rows[i][rebate_column] : i \in DOMAIN d.rows })
        cols == << rebate_column >> \o
                SelectSeq(d.columns, LAMBDA c : c # rebate_column)
    IN  Frame(cols,
                [ n \in DOMAIN keys |->
                          LET g == GroupRows(d, keys[n])
                          IN  [ c \in Range(cols) |-> g[Len(g)][c] ] ])

\* A faulty variant of groupby_first: one row per input row, no grouping.
groupby_none(d) ==
    LET cols == << rebate_column >> \o
                SelectSeq(d.columns, LAMBDA c : c # rebate_column)
    IN  Frame(cols, d.rows)

\* df.groupby("Rebate Name", dropna=False, as_index=False).first()
\* (sort=True by default: one row per key, keys ascending, key column first)
groupby_first(d) ==
    LET keys == SortKeys({ d.rows[i][rebate_column] : i \in DOMAIN d.rows })
        cols == << rebate_column >> \o
                SelectSeq(d.columns, LAMBDA c : c # rebate_column)
    IN  Frame(cols,
                [ n \in DOMAIN keys |->
                          LET g == GroupRows(d, keys[n])
                          IN  [ c \in Range(cols) |->
                                  IF c = rebate_column THEN keys[n]
                                  ELSE FirstValid([ i \in DOMAIN g |-> g[i][c] ]) ] ])

\* pd.concat([a, b], ignore_index=True): union of the columns, a's first
concat(a, b) ==
    LET cols == a.columns \o SelectSeq(b.columns, LAMBDA c : c \notin Range(a.columns))
        widen(r) == [ c \in Range(cols) |-> IF c \in DOMAIN r THEN r[c] ELSE NaN ]
    IN  Frame(cols,
                [ i \in 1..(Len(a.rows) + Len(b.rows)) |->
                          IF i <= Len(a.rows) THEN widen(a.rows[i])
                          ELSE widen(b.rows[i - Len(a.rows)]) ])

\* final_df[level_column].map({"Header": 0, "Lumpsum": 1}).fillna(2)
level_sort(v) == IF v = "Header" THEN 0 ELSE IF v = "Lumpsum" THEN 1 ELSE 2

\* order of two rows under by=[rebate_column, "_level_sort"]
RowLess(r1, r2) ==
    \/ StrLess(r1[rebate_column], r2[rebate_column])
    \/ /\ r1[rebate_column] = r2[rebate_column]
       /\ r1["_level_sort"] < r2["_level_sort"]

\* r placed after every row that is not greater than it
InsertStable(sorted, r) ==
    LET after == { i \in DOMAIN sorted : RowLess(r, sorted[i]) }
        p     == IF after = {} THEN Len(sorted) + 1
                 ELSE CHOOSE i \in after : \A j \in after : i <= j
    IN  SubSeq(sorted, 1, p - 1) \o << r >> \o SubSeq(sorted, p, Len(sorted))

RECURSIVE StableSort(_)
StableSort(rows) ==
    IF rows = << >> THEN << >>
    ELSE InsertStable(StableSort(SubSeq(rows, 1, Len(rows) - 1)), rows[Len(rows)])

\* A faulty variant of sort_values: the concatenation left as it is.
sort_values_skipped(d) == d

\* final_df.sort_values(by=[rebate_column, "_level_sort"], kind="stable")
sort_values(d) == Frame(d.columns, StableSort(d.rows))

\* final_df.drop(columns=[col])
drop(d, col) ==
    LET cols == SelectSeq(d.columns, LAMBDA c : c # col)
    IN  Frame(cols,
              [ i \in DOMAIN d.rows |-> [ c \in Range(cols) |-> d.rows[i][c] ] ])

\* A faulty variant of select_columns: the frame's own column order is kept.
select_columns_skipped(d, cols) == d

\* final_df[original_columns]
select_columns(d, cols) ==
    Frame(cols,
            [ i \in DOMAIN d.rows |-> [ c \in Range(cols) |-> d.rows[i][c] ] ])

----------------------------------------------------------------------------
(* process_dataframe                                                       *)

NoFrame == [ columns |-> << >>, rows |-> << >> ]

NoMetrics == [ input_rows |-> -1, distinct_rebates |-> -1, header_count |-> -1,
               lumpsum_count |-> -1, output_rows |-> -1 ]

\* One pass of the loop over DATE_COLUMNS (a column that is absent is skipped).
DateStep(st, col, consistent) ==
    IF st.raised \/ col \notin Range(st.df.columns) THEN st
    ELSE IF DtRaises(Column(st.df, col)) THEN [ raised |-> TRUE, df |-> st.df ]
    ELSE [ raised |-> FALSE,
           df     |-> SetColumn(st.df, col,
                                NormalizeColumn(Column(st.df, col), consistent)) ]

normalize_dates(d, consistent) ==
    DateStep(DateStep([ raised |-> FALSE, df |-> d ], DATE_COLUMNS[1], consistent),
             DATE_COLUMNS[2], consistent)

\* for col in LUMPSUM_COLUMNS: if col in header_rows.columns: header_rows[col] = ""
RECURSIVE BlankColumns(_, _)
BlankColumns(h, cols) ==
    IF cols = << >> THEN h
    ELSE BlankColumns(IF Head(cols) \in Range(h.columns)
                      THEN SetColumnConst(h, Head(cols), "") ELSE h,
                      Tail(cols))

header_rows_of(d) ==
    BlankColumns(SetColumnConst(groupby_first(d), level_column, "Header"),
                 LUMPSUM_COLUMNS)

\* A faulty variant of tag_lumpsum: the input's Level is kept.
tag_lumpsum_skipped(d) == d

\* df[level_column] = "Lumpsum"
tag_lumpsum(d) == SetColumnConst(d, level_column, "Lumpsum")

\* A faulty variant of nunique: empty keys are not counted.
nunique_dropping_empty(d, col) ==
    Cardinality({ d.rows[i][col] : i \in DOMAIN d.rows } \ {""})

\* df[col].nunique(dropna=False)
nunique(d, col) == Cardinality({ d.rows[i][col] : i \in DOMAIN d.rows })

\* final_df["_level_sort"] = final_df[level_column].map({...}).fillna(2)
rank_levels(m) ==
    SetColumn(m, "_level_sort",
              [ i \in DOMAIN m.rows |-> level_sort(m.rows[i][level_column]) ])

\* final_df[rebate_column] = final_df[rebate_column].fillna("")
fill_rebate(m) ==
    SetColumn(m, rebate_column,
              [ i \in DOMAIN m.rows |-> fillna(m.rows[i][rebate_column], "") ])

\* concat, rank, fill, sort, drop the helper column, restore the column order
final_frame(original_columns, header_rows, lumpsum_rows) ==
    select_columns(
        drop(sort_values(fill_rebate(rank_levels(concat(header_rows, lumpsum_rows)))),
             "_level_sort"),
        original_columns)

\* the metrics dictionary and the returned pair
finish(source_rows, distinct_rebates, header_rows, tagged, final) ==
    [ raised   |-> FALSE,
      df       |-> tagged,
      final_df |-> final,
      metrics  |-> [ input_rows       |-> source_rows,
                     distinct_rebates |-> distinct_rebates,
                     header_count     |-> RowCount(header_rows),
                     lumpsum_count    |-> source_rows,
                     output_rows      |-> RowCount(final) ] ]

assemble(original_columns, dated, header_rows, tagged) ==
    finish(RowCount(dated), nunique(dated, rebate_column), header_rows, tagged,
           final_frame(original_columns, header_rows, tagged))

\* the body of process_dataframe after the date loop
restructure(original_columns, dated) ==
    assemble(original_columns, dated, header_rows_of(dated), tag_lumpsum(dated))

after_dates(original_columns, st) ==
    IF st.raised
    THEN [ raised |-> TRUE, df |-> st.df, final_df |-> NoFrame, metrics |-> NoMetrics ]
    ELSE restructure(original_columns, st.df)

\* process_dataframe(df): [raised, df as mutated in place, final_df, metrics]
process_dataframe(d, consistent) == after_dates(d.columns, normalize_dates(d, consistent))

----------------------------------------------------------------------------
(* Input tables                                                            *)

ExtraColumn == "Notes"

AllColumns == Range(REQUIRED_COLUMNS) \cup {ExtraColumn}

StdColumns ==
    << "Level", "Lumpsum - Fee Type", "Rebate Name", "Lumpsum - Amount", "Notes",
       "Lumpsum - Branch", "Lumpsum - Lumpsum Date", "Lumpsum - Pay Date" >>

Row(k, lvl, fee, amt, br, d1, d2, note) ==
    [ c \in AllColumns |->
        CASE c = "Rebate Name"            -> k
          [] c = "Level"                  -> lvl
          [] c = "Lumpsum - Fee Type"     -> fee
          [] c = "Lumpsum - Amount"       -> amt
          [] c = "Lumpsum - Branch"       -> br
          [] c = "Lumpsum - Lumpsum Date" -> d1
          [] c = "Lumpsum - Pay Date"     -> d2
          [] OTHER                        -> note ]

RowPool ==
    { Row(k, "", "Flat", "100", "NY", "1/2/2024", "12/31/2023", "n1") :
        k \in Range(KeyValues) }
    \cup
    { Row(k, "Header", "Pct", "5", "LA", "2024-01-02", "", "n2") :
        k \in Range(KeyValues) }

DateTexts ==
    { "", "not a date", "01/02/2024", "12/31/2023", "1/2/2024", "13/01/2024",
      "2024-01-02" }

DateRowPool ==
    { Row("A", "", "Flat", "100", "NY", d1, d2, "n1") :
        d1 \in DateTexts, d2 \in {"", "01/02/2024"} }

SeqsUpTo(S, n) == UNION { [ 1..m -> S ] : m \in 0..n }

Restrict(r, cols) == [ c \in Range(cols) |-> r[c] ]

Table(cols, rows) == Frame(cols, [ i \in DOMAIN rows |-> Restrict(rows[i], cols) ])

RowTables == { Table(StdColumns, rs) : rs \in SeqsUpTo(RowPool, MaxRows) }

DateTables == { Table(StdColumns, rs) : rs \in SeqsUpTo(DateRowPool, MaxDateRows) }

\* Keys in the order B, A, B, C; the first row of B has an empty Notes cell.
ExampleTable ==
    Table(StdColumns,
          << Row("B", "", "Flat", "100", "NY", "1/2/2024", "12/31/2023", ""),
             Row("A", "x", "Pct", "5", "LA", "2024-01-02", "", "n2"),
             Row("B", "Header", "Pct", "7", "SF", "not a date", "01/02/2024", "n3"),
             Row("C", "Lumpsum", "", "", "", "", "", "") >>)

\* Two UTC offsets in one date column.
TzTable ==
    Table(StdColumns,
          << Row("A", "", "Flat", "100", "NY", "2024-01-02T00:00:00+01:00", "", "n1"),
             Row("B", "", "Flat", "100", "NY", "2024-01-02T00:00:00+02:00", "", "n2") >>)

\* A table without its date columns and branch.
ShortTable ==
    Table(<< "Notes", "Rebate Name", "Level", "Lumpsum - Amount", "Lumpsum - Fee Type" >>,
          << Row("A", "", "Flat", "100", "NY", "", "", "n1") >>)

----------------------------------------------------------------------------
(* validate_columns and process_dataframe applied to one table             *)

HandlerIdle ==
    /\ files = << >>
    /\ pos = 0
    /\ safe_name = << >>
    /\ unique_prefix = ""
    /\ missing_columns = << >>
    /\ final_df = NoFrame
    /\ metrics = NoMetrics
    /\ results = << >>
    /\ response = [ status |-> 0 ]
    /\ upload_dir = {}
    /\ output_dir = {}
    /\ validated = {}
    /\ restructured = {}

InitPD ==
    /\ consistent_format \in BOOLEAN
    /\ table \in RowTables \cup DateTables \cup {ExampleTable, TzTable, ShortTable}
    /\ df = table
    /\ pc = "pd_start"
    /\ HandlerIdle

PD_Validate ==
    /\ pc = "pd_start"
    /\ missing_columns' = validate_columns(df)
    /\ pc' = "pd_validated"
    /\ UNCHANGED <<consistent_format, table, df, final_df, metrics, handler_vars>>

PD_Process ==
    /\ pc = "pd_validated"
    /\ missing_columns = << >>
    /\ LET r == process_dataframe(df, consistent_format)
       IN  /\ df' = r.df
           /\ final_df' = r.final_df
           /\ metrics' = r.metrics
           /\ pc' = IF r.raised THEN "pd_raised" ELSE "pd_done"
    /\ UNCHANGED <<consistent_format, table, missing_columns, handler_vars>>

NextPD == PD_Validate \/ PD_Process

SpecPD == InitPD /\ [][NextPD]_vars

----------------------------------------------------------------------------
(* File names: sequences of characters.  A drawn uuid prefix is one token. *)

UpperCase == << "A", "B", "C", "S", "V", "T", "X" >>
LowerCase == << "a", "b", "c", "s", "v", "t", "x" >>
Digits == { "0", "1", "2", "3", "4", "5", "6", "7", "8", "9" }

\* uuid.uuid4().hex[:8]; the n-th draw, draws being distinct
uuid_hex(n) == "#" \o ToString(n)

UuidTokens == { uuid_hex(n) : n \in 0..(2 * (MaxFiles + 1)) }

isalnum(ch) ==
    ch \in Range(UpperCase) \cup Range(LowerCase) \cup Digits \cup UuidTokens
          \cup { "d", "e", "i", "l", "m", "n", "o", "p", "r", "u", "z" }

lower(ch) ==
    IF ch \in Range(UpperCase)
    THEN LowerCase[CHOOSE i \in DOMAIN UpperCase : UpperCase[i] = ch]
    ELSE ch

\* "".join(ch for ch in filename if ch.isalnum() or ch in ("-", "_", "."))
\* or, when nothing is left, f"upload-{uuid.uuid4().hex[:8]}.csv"
sanitize_filename(filename, n) ==
    LET safe == SelectSeq(filename, LAMBDA ch : isalnum(ch) \/ ch \in {"-", "_", "."})
    IN  IF safe # << >> THEN safe
        ELSE << "u", "p", "l", "o", "a", "d", "-", uuid_hex(n), ".", "c", "s", "v" >>

\* safe_name.lower().endswith(".csv")
EndsWithCsv(name) ==
    /\ Len(name) >= 4
    /\ [ i \in 1..4 |-> lower(name[Len(name) - 4 + i]) ] = << ".", "c", "s", "v" >>

\* f"{unique_prefix}-{safe_name}"
StoredName(prefix, name) == << prefix, "-" >> \o name

\* f"processed-{unique_prefix}-{safe_name}"
OutputName(prefix, name) ==
    << "p", "r", "o", "c", "e", "s", "s", "e", "d", "-", prefix, "-" >> \o name

----------------------------------------------------------------------------
(* Uploads: [filename, kind, table]; kind is "csv" for content read_csv    *)
(* parses, "empty" for no bytes, "malformed" for content it rejects.       *)

Upload(name, kind, t) == [ filename |-> name, kind |-> kind, table |-> t ]

GoodTable ==
    Table(StdColumns,
          << Row("B", "", "Flat", "100", "NY", "1/2/2024", "12/31/2023", "n1"),
             Row("A", "Header", "Pct", "5", "LA", "2024-01-02", "", "n2"),
             Row("B", "", "Pct", "7", "SF", "not a date", "01/02/2024", "n3") >>)

SmallTable ==
    Table(REQUIRED_COLUMNS,
          << Row("", "", "Flat", "1", "NY", "", "", "") >>)

FilePool ==
    { Upload(<< "a", ".", "c", "s", "v" >>, "csv", GoodTable),
      Upload(<< "b", " ", "2", ".", "C", "S", "V" >>, "csv", SmallTable),
      Upload(<< "m", ".", "c", "s", "v" >>, "csv", ShortTable),
      Upload(<< "t", "z", ".", "c", "s", "v" >>, "csv", TzTable),
      Upload(<< "x", ".", "t", "x", "t" >>, "csv", SmallTable),
      Upload(<< >>, "empty", NoFrame),
      Upload(<< "?", "?" >>, "malformed", NoFrame) }

----------------------------------------------------------------------------
(* process_files: POST /api/process                                        *)

Init ==
    /\ consistent_format \in BOOLEAN
    /\ files \in SeqsUpTo(FilePool, MaxFiles)
    /\ pc = "start"
    /\ pos = 0
    /\ safe_name = << >>
    /\ unique_prefix = ""
    /\ table = NoFrame
    /\ df = NoFrame
    /\ missing_columns = << >>
    /\ final_df = NoFrame
    /\ metrics = NoMetrics
    /\ results = << >>
    /\ response = [ status |-> 0 ]
    /\ upload_dir = {}
    /\ output_dir = {}
    /\ validated = {}
    /\ restructured = {}

\* raise HTTPException(status_code=status, detail=detail): the request ends
RaiseHTTP(status, detail) ==
    /\ response' = [ status |-> status, detail |-> detail ]
    /\ pc' = "raised"

\* if not files: raise 400; results = []
StartRequest ==
    /\ pc = "start"
    /\ IF files = << >>
       THEN /\ RaiseHTTP(400, [ message |-> "No files uploaded." ])
            /\ UNCHANGED pos
       ELSE /\ pos' = 1
            /\ pc' = "name"
            /\ UNCHANGED response
    /\ results' = << >>
    /\ UNCHANGED <<consistent_format, table, df, missing_columns, final_df, metrics,
                   files, safe_name, unique_prefix, upload_dir, output_dir,
                   validated, restructured>>

\* safe_name = sanitize_filename(upload.filename or "input.csv"); the .csv check
SanitizeName ==
    /\ pc = "name"
    /\ LET given == files[pos].filename
           name  == sanitize_filename(IF given = << >>
                                      THEN << "i", "n", "p", "u", "t", ".", "c", "s", "v" >>
                                      ELSE given, 2 * pos - 1)
       IN  /\ safe_name' = name
           /\ IF ~EndsWithCsv(name)
              THEN RaiseHTTP(400, [ message |-> "Only CSV files are supported", file |-> name ])
              ELSE /\ pc' = "read"
                   /\ UNCHANGED response
    /\ UNCHANGED <<consistent_format, table, df, missing_columns, final_df, metrics,
                   files, pos, unique_prefix, results, upload_dir, output_dir,
                   validated, restructured>>

\* unique_prefix, stored_input, content = await upload.read(), the write to UPLOAD_DIR
ReadUpload ==
    /\ pc = "read"
    /\ unique_prefix' = uuid_hex(2 * pos)
    /\ IF files[pos].kind = "empty"
       THEN /\ RaiseHTTP(400, [ message |-> "Uploaded file is empty", file |-> safe_name ])
            /\ UNCHANGED upload_dir
       ELSE /\ upload_dir' = upload_dir \cup { StoredName(unique_prefix', safe_name) }
            /\ pc' = "parse"
            /\ UNCHANGED response
    /\ UNCHANGED <<consistent_format, table, df, missing_columns, final_df, metrics,
                   files, pos, safe_name, results, output_dir, validated, restructured>>

\* df = pd.read_csv(stored_input, dtype=str, keep_default_na=False)
ReadCsv ==
    /\ pc = "parse"
    /\ IF files[pos].kind = "malformed"
       THEN /\ RaiseHTTP(400, [ message |-> "Invalid CSV format", file |-> safe_name ])
            /\ UNCHANGED <<table, df>>
       ELSE /\ table' = files[pos].table
            /\ df' = files[pos].table
            /\ pc' = "validate"
            /\ UNCHANGED response
    /\ UNCHANGED <<consistent_format, missing_columns, final_df, metrics, files, pos,
                   safe_name, unique_prefix, results, upload_dir, output_dir,
                   validated, restructured>>

\* A faulty variant of Validate: a non-empty list does not end the request.
Validate_proceeds ==
    /\ pc = "validate"
    /\ missing_columns' = validate_columns(df)
    /\ validated' = validated \cup {pos}
    /\ pc' = "process"
    /\ UNCHANGED <<consistent_format, table, df, final_df, metrics, files, pos,
                   safe_name, unique_prefix, results, response, upload_dir, output_dir,
                   restructured>>

\* missing_columns = validate_columns(df); if missing_columns: raise 422
Validate ==
    /\ pc = "validate"
    /\ missing_columns' = validate_columns(df)
    /\ validated' = validated \cup {pos}
    /\ IF missing_columns' # << >>
       THEN RaiseHTTP(422, [ file            |-> safe_name,
                             message         |-> "Missing required columns.",
                             missing_columns |-> missing_columns' ])
       ELSE /\ pc' = "process"
            /\ UNCHANGED response
    /\ UNCHANGED <<consistent_format, table, df, final_df, metrics, files, pos,
                   safe_name, unique_prefix, results, upload_dir, output_dir,
                   restructured>>

\* final_df, metrics = process_dataframe(df); an exception raises 500
Process ==
    /\ pc = "process"
    /\ restructured' = restructured \cup {pos}
    /\ LET r == process_dataframe(df, consistent_format)
       IN  /\ df' = r.df
           /\ IF r.raised
              THEN /\ RaiseHTTP(500, [ message |-> "Failed to process", file |-> safe_name ])
                   /\ UNCHANGED <<final_df, metrics>>
              ELSE /\ final_df' = r.final_df
                   /\ metrics' = r.metrics
                   /\ pc' = "write"
                   /\ UNCHANGED response
    /\ UNCHANGED <<consistent_format, table, missing_columns, files, pos, safe_name,
                   unique_prefix, results, upload_dir, output_dir, validated>>

\* final_df.to_csv(output_path, index=False), which may fail (500);
\* results.append(result); the loop moves on
WriteOutput ==
    /\ pc = "write"
    /\ \E written \in BOOLEAN :
          LET output_name == OutputName(unique_prefix, safe_name)
              result == [ input_file       |-> safe_name,
                          output_file      |-> output_name,
                          input_rows       |-> metrics.input_rows,
                          distinct_rebates |-> metrics.distinct_rebates,
                          header_count     |-> metrics.header_count,
                          lumpsum_count    |-> metrics.lumpsum_count,
                          output_rows      |-> metrics.output_rows ]
          IN  IF ~written
              THEN /\ RaiseHTTP(500, [ message |-> "Could not write output",
                                       file    |-> safe_name ])
                   /\ UNCHANGED <<output_dir, results, pos>>
              ELSE /\ output_dir' = { o \in output_dir : o.name # output_name }
                                    \cup { [ name |-> output_name, data |-> final_df ] }
                   /\ results' = Append(results, result)
                   /\ pos' = pos + 1
                   /\ pc' = IF pos + 1 > Len(files) THEN "totals" ELSE "name"
                   /\ UNCHANGED response
    /\ UNCHANGED <<consistent_format, table, df, missing_columns, final_df, metrics,
                   files, safe_name, unique_prefix, upload_dir, validated, restructured>>

RECURSIVE SumOf(_, _)
SumOf(rs, field) ==
    IF rs = << >> THEN 0 ELSE Head(rs)[field] + SumOf(Tail(rs), field)

\* totals = {...}; return {"results": results, "totals": totals}
Return ==
    /\ pc = "totals"
    /\ response' = [ status  |-> 200,
                     results |-> results,
                     totals  |-> [ files_processed   |-> Len(results),
                                   total_headers     |-> SumOf(results, "header_count"),
                                   total_lumpsum     |-> SumOf(results, "lumpsum_count"),
                                   total_output_rows |-> SumOf(results, "output_rows") ] ]
    /\ pc' = "returned"
    /\ UNCHANGED <<consistent_format, table, df, missing_columns, final_df, metrics,
                   files, pos, safe_name, unique_prefix, results, upload_dir, output_dir,
                   validated, restructured>>

Next ==
    \/ StartRequest
    \/ SanitizeName
    \/ ReadUpload
    \/ ReadCsv
    \/ Validate
    \/ Process
    \/ WriteOutput
    \/ Return

Spec == Init /\ [][Next]_vars

----------------------------------------------------------------------------
(* Column layouts: Rebate Name, Level, the pay date and the extra column   *)
(* at any place among the other required columns, and any set of required  *)
(* columns removed from a full layout.                                     *)

InsertAt(s, p, x) == SubSeq(s, 1, p) \o << x >> \o SubSeq(s, p + 1, Len(s))

InsertAll(SS, x) == UNION { { InsertAt(s, p, x) : p \in 0..Len(s) } : s \in SS }

FixedColumns ==
    << "Lumpsum - Fee Type", "Lumpsum - Amount", "Lumpsum - Branch",
       "Lumpsum - Lumpsum Date" >>

RequiredLayouts ==
    InsertAll(InsertAll(InsertAll({FixedColumns}, "Rebate Name"), "Level"),
              "Lumpsum - Pay Date")

FullLayouts == RequiredLayouts \cup InsertAll(RequiredLayouts, ExtraColumn)

Remove(cols, S) == SelectSeq(cols, LAMBDA c : c \notin S)

ShortLayouts ==
    { Remove(cols, S) : cols \in {StdColumns, REQUIRED_COLUMNS},
                        S \in SUBSET Range(REQUIRED_COLUMNS) }

LayoutRows ==
    << Row("B", "", "Flat", "100", "NY", "1/2/2024", "12/31/2023", "n1"),
       Row("A", "Header", "Pct", "5", "LA", "2024-01-02", "", "n2") >>

InitCols ==
    /\ consistent_format \in BOOLEAN
    /\ table \in { Table(cols, LayoutRows) : cols \in FullLayouts \cup ShortLayouts }
    /\ df = table
    /\ pc = "pd_start"
    /\ HandlerIdle

SpecCols == InitCols /\ [][NextPD]_vars

----------------------------------------------------------------------------
(* Properties of process_dataframe (checked under SpecPD)                  *)

InputKeys == { table.rows[i][rebate_column] : i \in DOMAIN table.rows }

RECURSIVE Dedup(_, _)
Dedup(s, seen) ==
    IF s = << >> THEN << >>
    ELSE IF Head(s) \in seen THEN Dedup(Tail(s), seen)
    ELSE << Head(s) >> \o Dedup(Tail(s), seen \cup {Head(s)})

\* the distinct Rebate Name values of the input, in first-seen order
FirstSeenKeys == Dedup([ i \in DOMAIN table.rows |-> table.rows[i][rebate_column] ], {})

OutRows == final_df.rows

IsHeader(r) == r[level_column] = "Header"
IsLumpsum(r) == r[level_column] = "Lumpsum"

HeaderKeys ==
    LET h == SelectSeq(OutRows, IsHeader)
    IN  [ i \in DOMAIN h |-> h[i][rebate_column] ]

\* what an input row is expected to become: retagged, its dates normalized
ExpectedLumpsum ==
    [ i \in DOMAIN table.rows |->
        [ c \in Range(table.columns) |->
            IF c = level_column THEN "Lumpsum"
            ELSE IF c \in Range(DATE_COLUMNS)
                 THEN NormalizeColumn(Column(table, c), consistent_format)[i]
            ELSE table.rows[i][c] ] ]

ExpectedGroup(k) == SelectSeq(ExpectedLumpsum, LAMBDA r : r[rebate_column] = k)

\* every Header row is immediately followed by its group's rows, in input order
GroupsFollowHeaders ==
    \A h \in DOMAIN OutRows :
        IsHeader(OutRows[h]) =>
            LET g == ExpectedGroup(OutRows[h][rebate_column])
            IN  /\ h + Len(g) <= Len(OutRows)
                /\ SubSeq(OutRows, h + 1, h + Len(g)) = g
                /\ h + Len(g) < Len(OutRows) => IsHeader(OutRows[h + Len(g) + 1])

\* C1 as stated: Header rows come in the first-seen order of their Rebate Name,
\* each immediately followed by its group's Lumpsum rows in input order.
C1_FirstSeenOrder ==
    pc = "pd_done" => /\ HeaderKeys = FirstSeenKeys
                      /\ GroupsFollowHeaders

\* C1 amended: Header rows come in ascending order of their Rebate Name, each
\* immediately followed by its group's Lumpsum rows in input order.
C1_AscendingOrder ==
    pc = "pd_done" => /\ HeaderKeys = SortKeys(InputKeys)
                      /\ GroupsFollowHeaders

C1_Witness ==
    /\ pc = "pd_done"
    /\ Len(table.rows) >= 3
    /\ FirstSeenKeys # SortKeys(InputKeys)
    /\ \E k \in InputKeys : Len(ExpectedGroup(k)) >= 2

\* C2: each key of the input has exactly one Header row, placed before all
\* Lumpsum rows of that key, and no Header row has a key absent from the input.
C2_OneHeaderPerKey ==
    pc = "pd_done" =>
        /\ \A k \in InputKeys :
              /\ Cardinality({ i \in DOMAIN OutRows :
                     IsHeader(OutRows[i]) /\ OutRows[i][rebate_column] = k }) = 1
              /\ \A i, j \in DOMAIN OutRows :
                     ( /\ IsHeader(OutRows[i]) /\ OutRows[i][rebate_column] = k
                       /\ IsLumpsum(OutRows[j]) /\ OutRows[j][rebate_column] = k )
                     => i < j
        /\ \A i \in DOMAIN OutRows :
              IsHeader(OutRows[i]) => OutRows[i][rebate_column] \in InputKeys

C2_Witness ==
    /\ pc = "pd_done"
    /\ Cardinality(InputKeys) >= 2
    /\ Len(table.rows) > Cardinality(InputKeys)
    /\ \E i \in DOMAIN table.rows : table.rows[i][level_column] = "Header"

\* C3: the metrics count the input rows, the distinct keys (the empty key being
\* one of them), one header per key, one lumpsum row per input row, and the rows
\* of the returned table.
C3_Metrics ==
    pc = "pd_done" =>
        /\ metrics.input_rows = Len(table.rows)
        /\ metrics.distinct_rebates = Cardinality(InputKeys)
        /\ metrics.header_count = metrics.distinct_rebates
        /\ metrics.lumpsum_count = metrics.input_rows
        /\ metrics.output_rows = metrics.header_count + metrics.lumpsum_count
        /\ metrics.output_rows = Len(OutRows)

C3_Witness ==
    /\ pc = "pd_done"
    /\ "" \in InputKeys
    /\ metrics.distinct_rebates >= 2
    /\ metrics.input_rows > metrics.distinct_rebates

BagOfSeq(s) ==
    [ x \in Range(s) |-> Cardinality({ i \in DOMAIN s : s[i] = x }) ]

\* C4: the Lumpsum rows of the output are the input rows, each once, retagged
\* and with normalized dates, every other cell as in the input.
C4_LumpsumRowsAreInput ==
    pc = "pd_done" =>
        /\ BagOfSeq(SelectSeq(OutRows, IsLumpsum)) = BagOfSeq(ExpectedLumpsum)
        /\ Len(SelectSeq(OutRows, IsLumpsum)) = Len(table.rows)

C4_Witness ==
    /\ pc = "pd_done"
    /\ Len(table.rows) >= 2
    /\ \E i \in DOMAIN table.rows : table.rows[i][level_column] = "Header"
    /\ \E i \in DOMAIN table.rows : table.rows[i][level_column] = ""
    /\ \E i \in DOMAIN table.rows :
          table.rows[i]["Lumpsum - Lumpsum Date"] # ExpectedLumpsum[i]["Lumpsum - Lumpsum Date"]

FirstRowOf(k) ==
    table.rows[CHOOSE i \in DOMAIN table.rows :
                 /\ table.rows[i][rebate_column] = k
                 /\ \A j \in DOMAIN table.rows :
                       table.rows[j][rebate_column] = k => i <= j]

\* C5: the Header row of a key is tagged Header, is empty in the five
\* detail-only columns and equals the key's first input row everywhere else.
C5_HeaderFromFirstRow ==
    pc = "pd_done" =>
        \A k \in InputKeys :
            \E i \in DOMAIN OutRows :
                /\ IsHeader(OutRows[i])
                /\ OutRows[i][rebate_column] = k
                /\ \A c \in Range(table.columns) :
                      OutRows[i][c] =
                          IF c = level_column THEN "Header"
                          ELSE IF c \in Range(LUMPSUM_COLUMNS) THEN ""
                          ELSE FirstRowOf(k)[c]

C5_Witness ==
    /\ pc = "pd_done"
    /\ \E i, j \in DOMAIN table.rows :
          /\ i < j
          /\ table.rows[i][rebate_column] = table.rows[j][rebate_column]
          /\ table.rows[i][ExtraColumn] # table.rows[j][ExtraColumn]
          /\ table.rows[i]["Lumpsum - Amount"] # ""

\* a cell already in the form MM/DD/YYYY
IsCanonical(s) ==
    /\ DateLex(s).shape = "slash"
    /\ ParseWith("%m/%d/%Y", s) # NaT
    /\ strftime(ParseWith("%m/%d/%Y", s)) = s

\* a cell no format fits
IsUnparseable(s) == s # "" /\ ParseAny(s) = NaT

\* C8 as stated: in both date columns a canonical cell is left as it is, an
\* unparseable or empty cell becomes empty, every resulting cell is empty or
\* canonical, and normalizing the result again changes nothing.
C8_DateNormalizationIdempotent ==
    pc = "pd_done" =>
        \A c \in Range(DATE_COLUMNS) :
            /\ \A i \in DOMAIN table.rows :
                  /\ IsCanonical(table.rows[i][c]) => df.rows[i][c] = table.rows[i][c]
                  /\ IsUnparseable(table.rows[i][c]) => df.rows[i][c] = ""
                  /\ table.rows[i][c] = "" => df.rows[i][c] = ""
                  /\ df.rows[i][c] = "" \/ IsCanonical(df.rows[i][c])
            /\ \A i \in DOMAIN OutRows :
                  IsLumpsum(OutRows[i]) =>
                      OutRows[i][c] = "" \/ IsCanonical(OutRows[i][c])
            /\ NormalizeColumn(Column(df, c), consistent_format) = Column(df, c)

----------------------------------------------------------------------------
(* Properties of the column handling (checked under SpecCols)              *)

\* C6: the returned table has the columns of the input, in the input's order.
C6_ColumnOrderPreserved ==
    pc = "pd_done" => final_df.columns = table.columns

C6_Witness ==
    /\ pc = "pd_done"
    /\ ExtraColumn \in Range(table.columns)
    /\ table.columns[1] # rebate_column
    /\ table.columns # StdColumns
    /\ Len(final_df.rows) = 4

PositionIn(s, x) == CHOOSE i \in DOMAIN s : s[i] = x

\* C7: validate_columns lists exactly the required columns the table lacks, in
\* the declared order, each once; it is empty exactly when none is absent.
C7_MissingColumnsExact ==
    pc \in {"pd_validated", "pd_done", "pd_raised"} =>
        /\ Range(missing_columns) = Range(REQUIRED_COLUMNS) \ Range(table.columns)
        /\ Len(missing_columns) =
               Cardinality(Range(REQUIRED_COLUMNS) \ Range(table.columns))
        /\ \A i, j \in DOMAIN missing_columns :
               i < j => PositionIn(REQUIRED_COLUMNS, missing_columns[i])
                          < PositionIn(REQUIRED_COLUMNS, missing_columns[j])
        /\ (missing_columns = << >>) <=>
               (Range(REQUIRED_COLUMNS) \subseteq Range(table.columns))
        /\ ExtraColumn \notin Range(missing_columns)

C7_Witness ==
    /\ pc = "pd_validated"
    /\ Len(missing_columns) = 3
    /\ missing_columns[1] # REQUIRED_COLUMNS[1]
    /\ ExtraColumn \in Range(table.columns)

----------------------------------------------------------------------------
(* Properties of process_files (checked under Spec)                        *)

SafeNameOf(i) ==
    sanitize_filename(IF files[i].filename = << >>
                      THEN << "i", "n", "p", "u", "t", ".", "c", "s", "v" >>
                      ELSE files[i].filename, 2 * i - 1)

OutputNameOf(i) == OutputName(uuid_hex(2 * i), SafeNameOf(i))

MissingOf(i) == Range(REQUIRED_COLUMNS) \ Range(files[i].table.columns)

\* an upload that is a .csv with content, all required columns, and dates
\* process_dataframe accepts
Sound(i) ==
    /\ files[i].kind = "csv"
    /\ EndsWithCsv(SafeNameOf(i))
    /\ MissingOf(i) = {}
    /\ \A c \in Range(DATE_COLUMNS) : ~DtRaises(Column(files[i].table, c))

Reported(i) ==
    /\ response.status = 200
    /\ \E k \in DOMAIN response.results :
          response.results[k].output_file = OutputNameOf(i)

\* C9 as stated: when one upload fails validation or processing, every other
\* sound upload of the batch is still validated, restructured and reported.
C9_SiblingsNotAborted ==
    ( /\ pc = "raised"
      /\ response.status \in {422, 500}
      /\ response.detail.message \in {"Missing required columns.", "Failed to process"} )
    => \A j \in DOMAIN files \ {pos} :
          Sound(j) => /\ j \in validated
                      /\ j \in restructured
                      /\ Reported(j)

\* C10: process_dataframe is called only for uploads validate_columns was called
\* for and found complete; an upload with absent columns is never restructured
\* or written, and the request ends with 422 carrying every absent column.
C10_ValidationGatesProcessing ==
    /\ restructured \subseteq validated
    /\ \A i \in restructured : MissingOf(i) = {}
    /\ \A i \in validated :
          MissingOf(i) # {} =>
              /\ i \notin restructured
              /\ \A o \in output_dir : o.name # OutputNameOf(i)
              /\ \A k \in DOMAIN results : results[k].output_file # OutputNameOf(i)
              /\ pc = "raised"
              /\ response.status = 422
              /\ Range(response.detail.missing_columns) = MissingOf(i)
              /\ Len(response.detail.missing_columns) = Cardinality(MissingOf(i))

C10_Witness ==
    /\ pc = "raised"
    /\ response.status = 422
    /\ Len(response.detail.missing_columns) >= 2
    /\ pos >= 2
    /\ restructured # {}
    /\ output_dir # {}

====
